---- MODULE Spec2Model ----
(***************************************************************************)
(* Model of libpulse-binding-async: the two awaiters that bridge the       *)
(* callback-driven PulseAudio client API to Rust futures.                  *)
(*                                                                         *)
(*   src/src/context.rs    ConnectFuture::poll, Context::connect and the   *)
(*                         request wrappers (remove_sample .. proplist_    *)
(*                         remove, exit_daemon)                            *)
(*   src/src/operation.rs  Operation::poll                                 *)
(*                                                                         *)
(* A behaviour follows one Context from its construction through its      *)
(* async calls.  Every async method takes &mut self, so at most one        *)
(* awaiter is alive on the Context at a time.  The native library, the     *)
(* mainloop that runs its callbacks, and the executor that polls the       *)
(* futures are the environment.                                            *)
(***************************************************************************)
EXTENDS Integers, Sequences, FiniteSets, TLC

(***************************************************************************)
(* Bounds of the model.                                                    *)
(***************************************************************************)
\* number of distinct wakers the executor may hand to successive polls
MaxWakers == 2
\* number of polls of one future the executor may make without a wake
MaxSpurious == 2

Wakers == 1..MaxWakers
NoWaker == 0

Max(S) == CHOOSE x \in S : \A y \in S : y <= x
Min(S) == CHOOSE x \in S : \A y \in S : x <= y

(***************************************************************************)
(* Values.                                                                 *)
(***************************************************************************)
\* the request methods of Context that await an Operation
RequestMethods ==
    {"remove_sample", "play_sample", "play_sample_with_proplist",
     "exit_daemon", "set_default_sink", "set_default_source", "set_name",
     "proplist_update", "proplist_remove"}

\* PAErr values the connection can report as its last error
ErrnoValues == {"OK", "NoEntity", "Killed"}

NoRet == [kind |-> "none", code |-> "-"]
Ok == [kind |-> "Ok", code |-> "-"]
Err(c) == [kind |-> "Err", code |-> c]
RetBool(b) == [kind |-> "Bool", code |-> IF b THEN "true" ELSE "false"]
Pending == [kind |-> "Pending", code |-> "-"]

VARIABLES
    threaded,      \* the mainloop dispatches on another thread than the task
    call,          \* the async method in flight or last made, "idle" at first
    \* ---- executor / task
    aw,            \* the awaiter: none, created, queried, registered,
                   \* pending, resolved, dropped
    pollWaker,     \* cx.waker().clone() of the latest poll that took it
    woken,         \* the task has been woken and not polled since
    spurious,      \* polls made with no wake
    polls,         \* polls begun
    pendings,      \* polls that returned Poll::Pending
    lastPoll,      \* what the latest completed poll returned
    \* ---- connection handle and ConnectFuture
    ctxState,      \* pa_context state
    ctxCallback,   \* waker owned by the registered state callback, or 0
    ctxErrno,      \* self.0.errno()
    server,        \* ConnectFuture.server: "Some" / "None"
    api,           \* ConnectFuture.api: "Some" / "None"
    seen,          \* the state the latest poll's query returned
    connectCalls,  \* number of native connect calls the awaiter issued
    connectRet,    \* what the latest native connect call returned
    \* ---- operation handle, Operation future, request wrapper
    opState,       \* pa_operation state, "NoOp" when there is none
    opCallback,    \* waker owned by the operation's state callback, or 0
    reqPc,         \* wrapper position: start, awaiting, loading, returned
    flag,          \* the Arc<AtomicBool> success
    cbInvoked,     \* the completion callback has run
    cbVerdict,     \* what the completion callback stored
    taskSynced,    \* the native context's writes happen-before the task
    wakeSynced,    \* ... happen-before the latest wake of the task
    flagRead,      \* what the latest success.load returned
    flagLoads,     \* number of loads of the flag by the wrapper
    errnoRead,     \* what self.0.errno() returned to the wrapper, or "-"
    ret,           \* what the async method returned
    \* ---- triggers fired during the call
    fires,         \* number of times a registered trigger fired
    firedWaker,    \* the waker the latest firing signalled
    firedFor,      \* the waker of the suspended attempt at that firing, or 0
    firedDropped,  \* a trigger fired after the awaiter was dropped
    superseded     \* the waker of the callback the latest registration replaced

vars ==
    <<threaded, call, aw, pollWaker, woken, spurious, polls,
      pendings, lastPoll, ctxState, ctxCallback, ctxErrno, server, api, seen,
      connectCalls, connectRet, opState, opCallback, reqPc, flag, cbInvoked,
      cbVerdict, taskSynced, wakeSynced, flagRead, flagLoads, errnoRead, ret,
      fires, firedWaker, firedFor, firedDropped, superseded>>

envVars == <<threaded, call>>
taskVars == <<pollWaker, spurious, polls, pendings, lastPoll, superseded>>
ctxVars == <<ctxState, ctxCallback, ctxErrno>>
cfVars == <<server, api, connectCalls, connectRet>>
opVars == <<opState, opCallback>>
flagVars == <<flag, cbInvoked, cbVerdict>>
reqVars == <<reqPc, flagRead, flagLoads, errnoRead, ret>>
fireVars == <<fires, firedWaker, firedFor, firedDropped, wakeSynced>>

\* the state of the bookkeeping of one call, before its first poll
FreshCall ==
    /\ pollWaker' = NoWaker
    /\ woken' = FALSE
    /\ spurious' = 0
    /\ polls' = 0
    /\ pendings' = 0
    /\ lastPoll' = NoRet
    /\ superseded' = NoWaker
    /\ seen' = "-"
    /\ connectCalls' = 0
    /\ connectRet' = NoRet
    /\ opCallback' = NoWaker
    /\ cbInvoked' = FALSE
    /\ cbVerdict' = FALSE
    /\ taskSynced' = TRUE
    /\ wakeSynced' = TRUE
    /\ flagRead' = FALSE
    /\ flagLoads' = 0
    /\ errnoRead' = "-"
    /\ ret' = NoRet
    /\ fires' = 0
    /\ firedWaker' = NoWaker
    /\ firedFor' = NoWaker
    /\ firedDropped' = FALSE

(***************************************************************************)
(* Initial state: Context::new, context.rs 63-65.  No call has been made.  *)
(***************************************************************************)
Init ==
    /\ threaded \in BOOLEAN
    /\ call = "idle"
    /\ aw = "none"
    /\ pollWaker = NoWaker
    /\ woken = FALSE
    /\ spurious = 0
    /\ polls = 0
    /\ pendings = 0
    /\ lastPoll = NoRet
    /\ ctxState = "Unconnected"
    /\ ctxCallback = NoWaker
    /\ ctxErrno = "OK"
    /\ server = "None"
    /\ api = "None"
    /\ seen = "-"
    /\ connectCalls = 0
    /\ connectRet = NoRet
    /\ opState = "NoOp"
    /\ opCallback = NoWaker
    /\ reqPc = "start"
    /\ flag = FALSE
    /\ cbInvoked = FALSE
    /\ cbVerdict = FALSE
    /\ taskSynced = TRUE
    /\ wakeSynced = TRUE
    /\ flagRead = FALSE
    /\ flagLoads = 0
    /\ errnoRead = "-"
    /\ ret = NoRet
    /\ fires = 0
    /\ firedWaker = NoWaker
    /\ firedFor = NoWaker
    /\ firedDropped = FALSE
    /\ superseded = NoWaker

(***************************************************************************)
(* The native library, as seen through the calls the source makes.         *)
(***************************************************************************)
\* context::State::is_good() of libpulse-binding (PA_CONTEXT_IS_GOOD): the
\* states of a connection that is being set up or is set up.
IsGood(s) == s \in {"Connecting", "Authorizing", "SettingName", "Ready"}

\* pa_context_connect: what it returns and the state it leaves, by the state
\* it is called in.  Only an unconnected context can be connected.
NativeConnect(s) ==
    IF s = "Unconnected"
    THEN {[ret |-> Ok, state |-> "Connecting"],
          [ret |-> Err("ConnectionRefused"), state |-> "Failed"]}
    ELSE {[ret |-> Err("BadState"), state |-> s]}

\* the next state of a connection that is being set up
CtxNext(s) ==
    CASE s = "Connecting" -> "Authorizing"
      [] s = "Authorizing" -> "SettingName"
      [] s = "SettingName" -> "Ready"
      [] OTHER -> s

\* the async call in flight has returned
Returned ==
    \/ call = "connect" /\ aw = "resolved"
    \/ reqPc = "returned"

\* The mainloop runs the library's callbacks.  On the task's own thread it
\* cannot run while the task runs, that is from the start of a poll to the
\* suspension or the return that ends it; on a thread of its own it can.
MidPoll ==
    \/ aw \in {"created", "queried", "registered"}
    \/ reqPc = "loading"
\* What it does once the call has returned is left to after the caller has
\* taken the result.
NativeMayRun == ~Returned /\ (threaded \/ ~MidPoll)

(***************************************************************************)
(* The executor.                                                           *)
(***************************************************************************)
\* A future is polled first when awaited, again when woken, and the executor
\* may poll it again with no wake; it is not polled once it has resolved.
MayPoll ==
    \/ aw = "created"
    \/ aw = "pending" /\ (woken \/ spurious < MaxSpurious)

\* The waker the executor passes to a poll: one it has passed before, or a
\* new one.  Wakers are told apart only by identity, so a new waker takes the
\* least number not in use.
PollWakers ==
    1..Min({MaxWakers,
            1 + Max({ctxCallback, opCallback, pollWaker, superseded,
                     firedWaker})})

PollBookkeeping ==
    /\ woken' = FALSE
    /\ polls' = polls + 1
    /\ spurious' = IF aw = "pending" /\ ~woken THEN spurious + 1 ELSE spurious
    \* a wake hands over to the polling thread what was written before it
    /\ taskSynced' = (taskSynced \/ (woken /\ wakeSynced))

(***************************************************************************)
(* The trigger: move || { waker.wake_by_ref(); }                           *)
(***************************************************************************)
TriggerClosure_OwnsAwaiter(w, awaiter, result) ==
    [signal |-> w, awaiter |-> "resolved", result |-> Ok]

TriggerClosure_NoSignal(w, awaiter, result) ==
    [signal |-> NoWaker, awaiter |-> awaiter, result |-> result]

\* What a firing of the closure does, given the waker it owns: the waker it
\* signals and what becomes of the awaiter's position and of the method's
\* result.
TriggerClosure(w, awaiter, result) ==
    [signal |-> w, awaiter |-> awaiter, result |-> result]

RegisterTrigger_Previous(old, w) == old

RegisterTrigger_None(old, w) == NoWaker

RegisterTrigger_KeepFirst(old, w) == IF old = NoWaker THEN w ELSE old

\* set_state_callback(Some(..)): the handle keeps one callback, the new one
RegisterTrigger(old, w) == w

\* wake_by_ref on waker cb.  Every waker handed to a poll of the task wakes
\* the task; a task that has resolved or was dropped no longer waits.
WokenAfter(cb) ==
    IF cb = NoWaker \/ aw \in {"none", "resolved", "dropped"} THEN woken
    ELSE TRUE

\* the native layer signals a state change of a handle whose callback owns
\* cb (own: the handle is the one the awaiter in flight waits on): the
\* closure runs, inside a native call of the poll in progress ...
FireSignal(cb, own) ==
    LET c == TriggerClosure(cb, aw, ret) IN
    /\ woken' = WokenAfter(c.signal)
    /\ fires' = IF cb = NoWaker THEN fires ELSE fires + 1
    /\ firedWaker' = IF cb = NoWaker THEN firedWaker ELSE c.signal
    /\ firedFor' = IF cb = NoWaker THEN firedFor
                   ELSE IF aw = "pending" /\ own THEN pollWaker ELSE NoWaker
    /\ firedDropped' = (firedDropped \/ (cb # NoWaker /\ aw = "dropped"))
    \* the wake carries what the signalling thread has written so far
    /\ wakeSynced' = IF cb = NoWaker THEN wakeSynced ELSE TRUE

\* ... or from the mainloop
Fire(cb, own) ==
    LET c == TriggerClosure(cb, aw, ret) IN
    /\ FireSignal(cb, own)
    /\ aw' = IF cb = NoWaker THEN aw ELSE c.awaiter
    /\ ret' = IF cb = NoWaker THEN ret ELSE c.result

(***************************************************************************)
(* Context::connect, context.rs 99-106, and ConnectFuture::poll, 34-50, in *)
(* the steps the native context can come between.                          *)
(***************************************************************************)
\* line 105: ConnectFuture { context, server, flags, api }
CallConnect(sv, ap) ==
    /\ call = "idle"
    /\ call' = "connect"
    /\ aw' = "created"
    /\ server' = sv
    /\ api' = ap
    /\ opState' = "NoOp"
    /\ reqPc' = "start"
    /\ flag' = FALSE
    /\ FreshCall
    /\ UNCHANGED <<threaded, ctxVars>>

ConnectPollQuery_OnlyReady(s) == IF s = "Ready" THEN Ok ELSE Pending

ConnectPollQuery_NeverGood(s) == Pending

\* lines 35-37: the state query decides whether this poll resolves at once
ConnectPollQuery(s) == IF IsGood(s) THEN Ok ELSE Pending

ConnectPollReturn_Swallow(r) == Pending

\* lines 46-49: what the poll returns after the connect call
ConnectPollReturn(r) == IF r.kind = "Err" THEN r ELSE Pending

\* lines 35-38
CFPollQuery(w) ==
    /\ call = "connect"
    /\ MayPoll
    /\ PollBookkeeping
    /\ seen' = ctxState
    /\ IF ConnectPollQuery(ctxState) = Ok
       THEN /\ aw' = "resolved"
            /\ lastPoll' = Ok
            /\ ret' = Ok
            /\ UNCHANGED pollWaker
       ELSE /\ aw' = "queried"
            /\ pollWaker' = w
            /\ UNCHANGED <<lastPoll, ret>>
    /\ UNCHANGED <<envVars, pendings, superseded, ctxVars, cfVars, opVars,
                   flagVars, reqPc, flagRead, flagLoads, errnoRead, fireVars>>

\* lines 40-42
CFPollRegister ==
    /\ call = "connect"
    /\ aw = "queried"
    /\ ctxCallback' = RegisterTrigger(ctxCallback, pollWaker)
    /\ superseded' = ctxCallback
    /\ aw' = "registered"
    /\ UNCHANGED <<envVars, pollWaker, spurious, polls, pendings,
                   lastPoll, woken, taskSynced, ctxState, ctxErrno, cfVars,
                   seen, opVars, flagVars, reqVars, fireVars>>

\* lines 43-49: take the parameters, call connect, return
CFPollConnect ==
    /\ call = "connect"
    /\ aw = "registered"
    /\ \E out \in NativeConnect(ctxState) :
         /\ server' = "None"
         /\ api' = "None"
         /\ connectCalls' = connectCalls + 1
         /\ connectRet' = out.ret
         /\ ctxState' = out.state
         \* pa_context_set_state runs the state callback inside the call
         /\ IF out.state # ctxState
            THEN FireSignal(ctxCallback, TRUE)
            ELSE UNCHANGED <<woken, fireVars>>
         /\ lastPoll' = ConnectPollReturn(out.ret)
         /\ IF ConnectPollReturn(out.ret) = Pending
            THEN /\ aw' = "pending"
                 /\ pendings' = pendings + 1
                 /\ UNCHANGED ret
            ELSE /\ aw' = "resolved"
                 /\ ret' = ConnectPollReturn(out.ret)
                 /\ UNCHANGED pendings
    /\ UNCHANGED <<envVars, pollWaker, spurious, polls, superseded,
                   taskSynced, ctxCallback, ctxErrno, seen, opVars, flagVars,
                   reqPc, flagRead, flagLoads, errnoRead>>

(***************************************************************************)
(* The connection's life cycle.                                            *)
(***************************************************************************)
\* Connecting -> Authorizing -> SettingName -> Ready
NativeCtxAdvance ==
    /\ NativeMayRun
    /\ ctxState \in {"Connecting", "Authorizing", "SettingName"}
    /\ ctxState' = CtxNext(ctxState)
    /\ Fire(ctxCallback, call = "connect")
    /\ UNCHANGED <<envVars, taskVars, taskSynced, ctxCallback, ctxErrno,
                   cfVars, seen, opVars, flagVars, reqPc, flagRead, flagLoads,
                   errnoRead>>

\* a connection being set up, or set up, fails
NativeCtxFail ==
    /\ NativeMayRun
    /\ IsGood(ctxState)
    /\ ctxState' = "Failed"
    /\ Fire(ctxCallback, call = "connect")
    /\ UNCHANGED <<envVars, taskVars, taskSynced, ctxCallback, ctxErrno,
                   cfVars, seen, opVars, flagVars, reqPc, flagRead, flagLoads,
                   errnoRead>>

\* Context::disconnect, context.rs 109-111, between two async calls
Disconnect ==
    /\ call = "idle"
    /\ IsGood(ctxState)
    /\ ctxState' = "Terminated"
    /\ Fire(ctxCallback, call = "connect")
    /\ UNCHANGED <<envVars, taskVars, taskSynced, ctxCallback, ctxErrno,
                   cfVars, seen, opVars, flagVars, reqPc, flagRead, flagLoads,
                   errnoRead>>

\* the caller has the result of the call, or has dropped its future, and
\* turns to something else: the awaiter and all it owned are gone
EndCall ==
    /\ Returned \/ aw = "dropped"
    /\ call' = "idle"
    /\ aw' = "none"
    /\ server' = "None"
    /\ api' = "None"
    /\ opState' = "NoOp"
    /\ reqPc' = "start"
    /\ flag' = FALSE
    /\ FreshCall
    /\ UNCHANGED <<threaded, ctxVars>>

\* the caller drops the future while it is suspended
DropAwaiter ==
    /\ aw = "pending"
    /\ aw' = "dropped"
    /\ UNCHANGED <<envVars, taskVars, woken, taskSynced, ctxVars, cfVars, seen,
                   opVars, flagVars, reqVars, fireVars>>

ConnectNext ==
    \/ \E sv \in {"Some", "None"}, ap \in {"Some", "None"} : CallConnect(sv, ap)
    \/ \E w \in PollWakers : CFPollQuery(w)
    \/ CFPollRegister
    \/ CFPollConnect
    \/ NativeCtxAdvance
    \/ NativeCtxFail
    \/ Disconnect

(***************************************************************************)
(* Operation::poll, operation.rs 18-29.                                    *)
(***************************************************************************)
OperationPollMatch_CancelledOk(s) ==
    CASE s = "Done" -> Ok
      [] s = "Cancelled" -> Ok
      [] OTHER -> Pending

OperationPollMatch_DonePending(s) ==
    CASE s = "Cancelled" -> Err("Killed")
      [] OTHER -> Pending

OperationPollMatch_RunningOk(s) ==
    CASE s = "Cancelled" -> Err("Killed")
      [] OTHER -> Ok

\* lines 19-23: the match on get_state()
OperationPollMatch(s) ==
    CASE s = "Done" -> Ok
      [] s = "Cancelled" -> Err("Killed")
      [] OTHER -> Pending

(***************************************************************************)
(* The request wrappers of Context, context.rs 114-304.                    *)
(***************************************************************************)
\* what the native layer passes to the completion callback of a method
Payloads(m) ==
    IF m = "play_sample_with_proplist" THEN {"Ok(idx)", "Err(())"}
    ELSE {"true", "false"}

\* the value the completion callback stores: suc, or suc.is_ok() (line 193)
CallbackVerdict(m, p) ==
    IF m = "play_sample_with_proplist" THEN p = "Ok(idx)" ELSE p = "true"

StoreRelease_Dropped(v) == FALSE

\* success.store(v, Ordering::Release): the value the cell holds afterwards
StoreRelease(v) == v

\* success.load(Ordering::Acquire): the values the load can return.  The load
\* returns the latest store when that store happens-before it; a load that
\* nothing orders after the store may still return the initial value.
LoadAcquire == IF taskSynced THEN {flag} ELSE {flag, FALSE}

AfterAwait_Ignore(m, r) == NoRet

\* op.await? (line 120), and exit_daemon's is_err() test (lines 218-220): what
\* the method returns at once when the awaiter resolved r, NoRet to go on
AfterAwait(m, r) ==
    IF r.kind = "Err"
    THEN IF m = "exit_daemon" THEN RetBool(FALSE) ELSE r
    ELSE NoRet

ResultExtraction_Swapped(m, v, e) ==
    IF m = "exit_daemon" THEN RetBool(v)
    ELSE IF v THEN Err(e) ELSE Ok

\* the match on the flag (lines 121-124), exit_daemon's bare load (line 221)
ResultExtraction(m, v, e) ==
    IF m = "exit_daemon" THEN RetBool(v)
    ELSE IF v THEN Ok ELSE Err(e)

\* lines 115-119 of remove_sample and the like in the other methods: allocate
\* the flag, issue the remote call on a connected Context, wrap the handle
CallRequest(m) ==
    /\ call = "idle"
    /\ ctxState = "Ready"
    /\ call' = m
    /\ flag' = FALSE
    /\ opState' = "Running"
    /\ aw' = "created"
    /\ reqPc' = "awaiting"
    /\ server' = "None"
    /\ api' = "None"
    /\ FreshCall
    /\ UNCHANGED <<threaded, ctxVars>>

\* operation.rs 19-24, and the wrapper's test of the awaiter's result
OpPollQuery(w) ==
    /\ call \in RequestMethods
    /\ reqPc = "awaiting"
    /\ MayPoll
    /\ PollBookkeeping
    /\ seen' = opState
    /\ LET r == OperationPollMatch(opState) IN
       IF r # Pending
       THEN /\ aw' = "resolved"
            /\ lastPoll' = r
            /\ ret' = AfterAwait(call, r)
            /\ reqPc' = IF AfterAwait(call, r) = NoRet
                        THEN "loading" ELSE "returned"
            /\ UNCHANGED pollWaker
       ELSE /\ aw' = "queried"
            /\ pollWaker' = w
            /\ UNCHANGED <<lastPoll, ret, reqPc>>
    /\ UNCHANGED <<envVars, pendings, superseded, ctxVars, cfVars, opVars,
                   flagVars, flagRead, flagLoads, errnoRead, fireVars>>

\* operation.rs 25-28
OpPollRegister ==
    /\ call \in RequestMethods
    /\ aw = "queried"
    /\ opCallback' = RegisterTrigger(opCallback, pollWaker)
    /\ superseded' = opCallback
    /\ aw' = "pending"
    /\ pendings' = pendings + 1
    /\ lastPoll' = Pending
    /\ UNCHANGED <<envVars, pollWaker, spurious, polls, woken,
                   taskSynced, ctxVars, cfVars, seen, opState, flagVars,
                   reqVars, fireVars>>

\* context.rs 121-124
WrapperLoad ==
    /\ reqPc = "loading"
    /\ \E v \in LoadAcquire :
         /\ flagRead' = v
         /\ errnoRead' = IF call # "exit_daemon" /\ ~v THEN ctxErrno ELSE "-"
         /\ ret' = ResultExtraction(call, v, ctxErrno)
    /\ flagLoads' = flagLoads + 1
    /\ reqPc' = "returned"
    /\ UNCHANGED <<envVars, aw, taskVars, woken, taskSynced, ctxVars, cfVars,
                   seen, opVars, flagVars, fireVars>>

(***************************************************************************)
(* The operation's life cycle, driven by the native layer.                 *)
(***************************************************************************)
\* the reply arrives: the completion callback runs with the server's verdict
NativeCallback(p) ==
    /\ call \in RequestMethods
    /\ NativeMayRun
    /\ opState = "Running"
    /\ ~cbInvoked
    /\ flag' = StoreRelease(CallbackVerdict(call, p))
    /\ cbVerdict' = CallbackVerdict(call, p)
    /\ cbInvoked' = TRUE
    /\ taskSynced' = IF threaded THEN FALSE ELSE taskSynced
    /\ wakeSynced' = IF threaded THEN FALSE ELSE wakeSynced
    /\ \E e \in ErrnoValues :
         ctxErrno' = IF CallbackVerdict(call, p) THEN ctxErrno ELSE e
    /\ UNCHANGED <<envVars, aw, taskVars, woken, ctxState, ctxCallback, cfVars,
                   seen, opVars, reqVars, fires, firedWaker, firedFor,
                   firedDropped>>

\* pa_operation_done
NativeOpDone ==
    /\ call \in RequestMethods
    /\ NativeMayRun
    /\ opState = "Running"
    /\ opState' = "Done"
    /\ Fire(opCallback, TRUE)
    /\ UNCHANGED <<envVars, taskVars, taskSynced, ctxVars, cfVars, seen,
                   opCallback, flagVars, reqPc, flagRead, flagLoads, errnoRead>>

\* pa_operation_cancel, or the connection going away
NativeOpCancel ==
    /\ call \in RequestMethods
    /\ NativeMayRun
    /\ opState = "Running"
    /\ opState' = "Cancelled"
    /\ Fire(opCallback, TRUE)
    /\ UNCHANGED <<envVars, taskVars, taskSynced, ctxVars, cfVars, seen,
                   opCallback, flagVars, reqPc, flagRead, flagLoads, errnoRead>>

RequestNext ==
    \/ \E m \in RequestMethods : CallRequest(m)
    \/ \E w \in PollWakers : OpPollQuery(w)
    \/ OpPollRegister
    \/ WrapperLoad
    \/ \E p \in Payloads(call) : NativeCallback(p)
    \/ NativeOpDone
    \/ NativeOpCancel

Next == ConnectNext \/ RequestNext \/ DropAwaiter \/ EndCall

Spec == Init /\ [][Next]_vars

(***************************************************************************)
(* The executor's fairness: a future that is awaited is polled, a woken    *)
(* task is polled again, and a poll or a method body that has begun runs   *)
(* on.  Nothing obliges the executor to poll with no wake, the native      *)
(* layer to make progress, or the caller to drop the future.               *)
(***************************************************************************)
ScheduledPoll ==
    /\ aw = "created" \/ woken
    /\ \E w \in PollWakers : CFPollQuery(w) \/ OpPollQuery(w)

FairSpec ==
    /\ Spec
    /\ WF_vars(ScheduledPoll)
    /\ WF_vars(CFPollRegister)
    /\ WF_vars(CFPollConnect)
    /\ WF_vars(OpPollRegister)
    /\ WF_vars(WrapperLoad)

(***************************************************************************)
(* Properties.                                                             *)
(***************************************************************************)
ResultMethods == RequestMethods \ {"exit_daemon"}

\* the callback registered on the handle the awaiter waits on
HandleCallback == IF call = "connect" THEN ctxCallback ELSE opCallback

\* C1: the connection awaiter resolves Ok only on a poll whose state query
\* returned Ready, never on one that returned Connecting or another state
\* that precedes Ready.
C1_OkOnlyWhenReady ==
    (call = "connect" /\ aw = "resolved" /\ lastPoll = Ok) => seen = "Ready"

\* C2: one connection awaiter issues the native connect call at most once,
\* however often it is polled.
C2_SingleConnect == call = "connect" => connectCalls <= 1

\* C3: a poll of the operation awaiter that finds the handle Done resolves
\* Ok, one that finds it Cancelled resolves Err(Killed), and the awaiter
\* resolves on no other state.
C3_CancellationMapping ==
    call \in RequestMethods =>
        /\ seen = "Done" => (aw = "resolved" /\ lastPoll = Ok)
        /\ seen = "Cancelled" => (aw = "resolved" /\ lastPoll = Err("Killed"))
        /\ aw = "resolved" => seen \in {"Done", "Cancelled"}

C3_Witness ==
    /\ call \in RequestMethods
    /\ seen = "Cancelled"
    /\ lastPoll = Err("Killed")
    /\ pendings > 0

\* C4: under a fair executor, once the operation handle is Done or Cancelled
\* the awaiter eventually resolves (unless the caller drops it), wherever the
\* native state change falls relative to the steps of a poll.
C4_NoLostWakeup ==
    [](  (call \in RequestMethods /\ opState \in {"Done", "Cancelled"})
      => <>(aw \in {"resolved", "dropped"}))

\* C5: when the native connect call returns an error, the poll that issued it
\* resolves with that error, and Context::connect returns it.
C5_SyncConnectFailure ==
    (call = "connect" /\ connectRet.kind = "Err") =>
        /\ aw = "resolved"
        /\ lastPoll = connectRet
        /\ ret = connectRet

C5_Witness ==
    /\ call = "connect"
    /\ connectRet = Err("ConnectionRefused")
    /\ ret = Err("ConnectionRefused")
    /\ polls = 1
    /\ pendings = 0

\* C6: when the operation awaiter resolved Ok, a Result-returning wrapper
\* returns Ok(()) iff the flag read true and Err(errno) iff it read false.
C6_ResultExtraction ==
    (call \in ResultMethods /\ reqPc = "returned" /\ lastPoll = Ok) =>
        /\ flagLoads = 1
        /\ flagRead <=> ret = Ok
        /\ ~flagRead <=> (errnoRead # "-" /\ ret = Err(errnoRead))

C6_Witness ==
    /\ call \in ResultMethods
    /\ reqPc = "returned"
    /\ lastPoll = Ok
    /\ ~cbInvoked
    /\ flagLoads = 1
    /\ ret = Err(errnoRead)

\* C7: when the operation awaiter resolved on Cancelled, a Result-returning
\* wrapper returns Err(Killed) without loading the flag or asking for errno.
C7_CancelledYieldsKilled ==
    (call \in ResultMethods /\ seen = "Cancelled") =>
        /\ reqPc = "returned"
        /\ ret = Err("Killed")
        /\ flagLoads = 0
        /\ errnoRead = "-"

C7_Witness ==
    /\ call \in ResultMethods
    /\ seen = "Cancelled"
    /\ pendings > 0
    /\ fires > 0
    /\ flag = TRUE
    /\ ret = Err("Killed")

\* C8: with the mainloop on another thread, a load of the flag after the
\* awaiter resolved Ok returns the verdict the completion callback stored.
C8_HappensBefore ==
    (/\ call \in RequestMethods
     /\ threaded
     /\ cbInvoked
     /\ lastPoll = Ok
     /\ reqPc = "returned") => flagRead = cbVerdict

\* C9: while the awaiter is suspended the handle's one callback owns the
\* waker of the poll that suspended it, and a state change that finds the
\* awaiter suspended signals that waker.
C9_LatestTrigger ==
    /\ aw = "pending" => HandleCallback = pollWaker
    /\ firedFor # NoWaker => firedWaker = firedFor

C9_Witness ==
    /\ pendings >= 2
    /\ superseded # NoWaker
    /\ superseded # pollWaker
    /\ firedFor = pollWaker
    /\ firedWaker = pollWaker

C11_ConnectResolves ==
    [](  (/\ call = "connect"
          /\ pendings >= 1
          /\ ctxState \in {"Ready", "Failed"})
      => <>(aw \in {"resolved", "dropped"}))

C11_Witness ==
    /\ call = "connect"
    /\ pendings >= 1
    /\ ctxState = "Failed"
    /\ fires >= 2
    /\ aw = "resolved"
    /\ ret = Err("BadState")

\* C12: a poll of the operation awaiter that finds the handle Running does
\* not resolve: it registers a trigger owning its waker and returns Pending,
\* however many polls came before; the awaiter resolves only on a poll that
\* finds Done or Cancelled.
C12_RunningNeverResolves ==
    call \in RequestMethods =>
        /\ seen = "Running" =>
              /\ aw \in {"queried", "pending", "dropped"}
              /\ aw = "queried" => pendings = polls - 1
              /\ aw \in {"pending", "dropped"} =>
                    /\ lastPoll = Pending
                    /\ pendings = polls
                    /\ opCallback = pollWaker
        /\ aw = "resolved" =>
              /\ seen \in {"Done", "Cancelled"}
              /\ pendings = polls - 1

C12_Witness ==
    /\ call \in RequestMethods
    /\ seen = "Running"
    /\ opState = "Running"
    /\ aw = "pending"
    /\ spurious = MaxSpurious
    /\ pendings >= 3
    /\ superseded # NoWaker
    /\ opCallback = pollWaker

\* C13: a poll of the operation awaiter that finds the handle Done or
\* Cancelled resolves in that step, registers no trigger and counts no
\* suspension; an awaiter that found Done on its first poll resolved Ok with
\* no suspension and no trigger registered by it.
C13_TerminalLeavesTrigger ==
    /\ [](  (call \in RequestMethods /\ polls = 1 /\ seen = "Done")
          => (/\ aw = "resolved"
              /\ lastPoll = Ok
              /\ pendings = 0
              /\ opCallback = NoWaker))
    /\ [][(/\ call \in RequestMethods
           /\ polls' = polls + 1
           /\ opState \in {"Done", "Cancelled"})
          => (/\ aw' = "resolved"
              /\ lastPoll' = OperationPollMatch(opState)
              /\ UNCHANGED <<opCallback, pollWaker, superseded, pendings,
                             opState>>)]_vars

C13_Witness ==
    /\ call \in RequestMethods
    /\ polls = 1
    /\ seen = "Done"
    /\ aw = "resolved"
    /\ lastPoll = Ok
    /\ pendings = 0
    /\ opCallback = NoWaker

\* C14 (Scenario A): a connection awaiter whose connect call returned Ok and
\* that was suspended, and whose next poll finds the connection Ready, has
\* returned Pending exactly once, resolves Ok on its second poll and has
\* issued exactly one connect call; and under a fair executor an awaiter
\* suspended on a connection that has become Ready is polled again and
\* resolves (unless the caller drops it).
C14_ScenarioA ==
    /\ [](  (/\ call = "connect"
             /\ aw = "resolved"
             /\ pendings >= 1
             /\ seen = "Ready")
          => (/\ pendings = 1
              /\ polls = 2
              /\ lastPoll = Ok
              /\ ret = Ok
              /\ connectCalls = 1
              /\ connectRet = Ok))
    /\ [](  (call = "connect" /\ aw = "pending" /\ ctxState = "Ready")
          => <>(aw \in {"resolved", "dropped"}))

C14_Witness ==
    /\ call = "connect"
    /\ aw = "resolved"
    /\ seen = "Ready"
    /\ pendings = 1
    /\ polls = 2
    /\ ret = Ok
    /\ connectCalls = 1
    /\ fires >= 4
    /\ firedWaker = pollWaker

\* C15: a poll of the connection awaiter, the first or a later one, whose
\* state query reports a good state resolves Ok in that step and touches
\* nothing else: the handle's callback and state, the stored server and
\* spawn api and the number of connect calls stay as they were.
C15_GoodShortCircuit ==
    [][(/\ call = "connect"
        /\ polls' = polls + 1
        /\ IsGood(ctxState))
       => (/\ aw' = "resolved"
           /\ lastPoll' = Ok
           /\ ret' = Ok
           /\ UNCHANGED <<ctxState, ctxCallback, ctxErrno, server, api,
                          connectCalls, connectRet, pollWaker, superseded,
                          pendings, fires>>)]_vars

C15_Witness ==
    /\ call = "connect"
    /\ aw = "resolved"
    /\ polls = 1
    /\ IsGood(seen)
    /\ lastPoll = Ok
    /\ server = "Some"
    /\ api = "Some"
    /\ connectCalls = 0
    /\ pollWaker = NoWaker

\* C16: a poll of either awaiter returns Pending only as the step that
\* follows its registration of a trigger, and whenever an awaiter is
\* suspended the callback registered on its handle owns the waker of the
\* poll that suspended it.
C16_SuspensionArmed ==
    /\ [](aw = "pending" =>
             /\ lastPoll = Pending
             /\ pollWaker \in Wakers
             /\ HandleCallback = pollWaker)
    /\ [][pendings' = pendings + 1 =>
             /\ aw = (IF call = "connect" THEN "registered" ELSE "queried")
             /\ aw' = "pending"
             /\ lastPoll' = Pending
             /\ HandleCallback' = pollWaker
             /\ pollWaker' = pollWaker]_vars

C16_Witness ==
    /\ call \in RequestMethods
    /\ aw = "pending"
    /\ pendings = 3
    /\ fires = 0
    /\ pollWaker = 2
    /\ superseded = 1
    /\ opCallback = 2

\* C17: when the awaiter of a call resolved with an error, the async method
\* returns that error to its caller, for connect and for every request
\* method, exit_daemon included.
C17_ErrorsPropagate ==
    (Returned /\ lastPoll.kind = "Err") => ret = lastPoll

\* the flag holds false until the completion callback runs and the value
\* the callback stored from then on: nothing else writes it
FlagWrittenByCallbackOnly ==
    /\ ~cbInvoked => flag = FALSE
    /\ cbInvoked => flag = cbVerdict

\* the wrapper loads the flag only once the awaiter has resolved
FlagReadAfterResolution == flagLoads > 0 => aw = "resolved"

\* C18, as stated: within a request the flag is false until the completion
\* callback, its only writer, runs; the wrapper does not load it before the
\* awaiter resolved; and a request that has returned has loaded it exactly
\* once.
C18_FlagDisciplineAsStated ==
    call \in RequestMethods =>
        /\ FlagWrittenByCallbackOnly
        /\ FlagReadAfterResolution
        /\ reqPc = "returned" => flagLoads = 1

\* C18, amended: as above, but the wrapper loads the flag at most once:
\* exactly once when the awaiter resolved Ok, and not at all when it
\* resolved Err(Killed) or was dropped.
C18_FlagDiscipline ==
    call \in RequestMethods =>
        /\ FlagWrittenByCallbackOnly
        /\ FlagReadAfterResolution
        /\ flagLoads <= 1
        /\ reqPc = "returned" => (flagLoads = 1 <=> lastPoll = Ok)
        /\ aw = "dropped" => flagLoads = 0

C18_Witness ==
    /\ call \in RequestMethods
    /\ reqPc = "returned"
    /\ lastPoll = Ok
    /\ cbInvoked
    /\ flag = TRUE
    /\ flagLoads = 1
    /\ flagRead = TRUE

\* C19: when the connection awaiter issues the connect call, the handle's
\* callback already owns the waker of that poll, so a state change signalled
\* inside the call signals that waker and wakes the task; and an awaiter
\* suspended after its connect call has been woken for the state changes
\* since, with the latest signal on its own waker.
C19_RegisterBeforeConnect ==
    /\ [][connectCalls' = connectCalls + 1 =>
             /\ pollWaker \in Wakers
             /\ ctxCallback = pollWaker
             /\ ctxState' # ctxState =>
                   /\ woken'
                   /\ fires' = fires + 1
                   /\ firedWaker' = pollWaker]_vars
    /\ [](  (call = "connect" /\ aw = "pending")
          => (/\ ctxState # seen
              /\ woken
              /\ fires >= 1
              /\ firedWaker = pollWaker))

C19_Witness ==
    /\ call = "connect"
    /\ aw = "pending"
    /\ polls = 1
    /\ connectCalls = 1
    /\ connectRet = Ok
    /\ ctxState = "Connecting"
    /\ fires = 1
    /\ firedWaker = pollWaker
    /\ woken

====
